---- MODULE Spec2Model ----
(***************************************************************************)
(* LUNA USB2 control-request gateware (luna/gateware/usb/usb2/request.py): *)
(* the USBSetupDecoder FSM and the StandardRequestHandler FSM.             *)
(*                                                                         *)
(* One TLA+ state is one cycle of the "usb" clock domain: the registers    *)
(* (FSM state, SetupPacket record) as they are during the cycle, together  *)
(* with the input signals sampled in that cycle.  Combinational outputs    *)
(* (ack, timer.start, handshake.stall) are state functions of the two.     *)
(* One step is one clock edge: the registers take the values the           *)
(* synchronous statements assign, and the next cycle's inputs are chosen   *)
(* by the environment.                                                     *)
(***************************************************************************)
EXTENDS Integers, Sequences, FiniteSets, TLC

VARIABLES
    state,          \* USBSetupDecoder FSM state register
    packet,         \* USBSetupDecoder.packet : SetupPacket (all registers)
    tokenizer,      \* TokenDetectorInterface inputs : new_token, pid
    data_handler,   \* USBDataPacketDeserializer outputs : new_packet, length, packet
    timer,          \* InterpacketTimerInterface input : tx_allowed
    speed,          \* USBSetupDecoder.speed : Signal(2)
    setup_data,     \* history: payload of the last successful decode (NoData before)
    awaiting_tx,    \* history: a FULL/LOW decode happened, no tx_allowed sampled since
    setup_seen,     \* history: a SETUP token pulse was sampled, no token pulse in a later cycle
    unacked,        \* history: successful decodes minus ack pulses, over the completed cycles
    handler_state,  \* StandardRequestHandler FSM state register
    interface,      \* RequestHandlerInterface inputs : setup.received, data_requested, status_requested
    owed,           \* history: setup.received was sampled, no stall on a later cycle yet
    armed,          \* history: setup.received was sampled in IDLE, no stall since
    n_received,     \* history: setup.received pulses sampled so far
    n_stall         \* history: stall pulses issued so far

decoder_vars == <<state, packet, tokenizer, data_handler, timer, speed, setup_data, awaiting_tx,
                  setup_seen, unacked>>
handler_vars == <<handler_state, interface, owed, armed, n_received, n_stall>>
vars == <<state, packet, tokenizer, data_handler, timer, speed, setup_data, awaiting_tx,
          setup_seen, unacked, handler_state, interface, owed, armed, n_received, n_stall>>

----------------------------------------------------------------------------
(* Program constants *)

SETUP_PID == 13
HIGH == 0
FULL == 1
LOW == 2
max_packet_size == 8

(* speed is Signal(2): every 2-bit value can be driven *)
SpeedValues == 0 .. 3

----------------------------------------------------------------------------
(* Bit vectors *)

(* bits lo .. lo+width-1 of v *)
BitSlice(v, lo, width) == (v \div (2 ^ lo)) % (2 ^ width)

(* Cat(lo, hi) of two 8-bit values, assigned to a 16-bit signal *)
Cat16(lo, hi) == ((lo % 256) + 256 * (hi % 256)) % 65536

(* a one-bit signal as a number *)
Pulse(b) == IF b THEN 1 ELSE 0

(* the 8-entry byte memory data_handler.packet, from a tuple of 8 bytes *)
Bytes(t) == [i \in 0 .. 7 |-> t[i + 1]]

----------------------------------------------------------------------------
(* Environment of USBSetupDecoder: the values its inputs take in one cycle *)

(* reference SETUP data stage of provide_reference_setup_transaction:
   0x42, 12, 0xCD, 0xAB, 0x23, 0x01, 0x78, 0x56 *)
ReferencePayload == Bytes(<<66, 12, 205, 171, 35, 1, 120, 86>>)
ZeroPayload == Bytes(<<0, 0, 0, 0, 0, 0, 0, 0>>)
OnesPayload == Bytes(<<255, 255, 255, 255, 255, 255, 255, 255>>)
(* 0x9F: IN request, type 0, recipient 31; high bit only in value, low byte only in index *)
MixedPayload == Bytes(<<159, 1, 0, 128, 255, 0, 1, 0>>)

Payloads == {ReferencePayload, OnesPayload, MixedPayload}

(* SETUP (0b1101) and IN (0b1001), one bit apart *)
PIDs == {SETUP_PID, 9}

TokenValues == [new_token : BOOLEAN, pid : PIDs]

(* no pulse: the deserializer shows nothing, or still shows the last packet *)
NoPacketValues ==
    { [new_packet |-> FALSE, length |-> 0, packet |-> ZeroPayload],
      [new_packet |-> FALSE, length |-> max_packet_size, packet |-> ReferencePayload] }

(* a packet of fewer than 8 bytes; what the byte memory shows varies *)
ShortPacketValues ==
    { [new_packet |-> TRUE, length |-> n,
       packet |-> IF n % 2 = 0 THEN ReferencePayload ELSE OnesPayload] :
      n \in 0 .. (max_packet_size - 1) }

FullPacketValues ==
    [new_packet : {TRUE}, length : {max_packet_size}, packet : Payloads]

DataValues == NoPacketValues \cup ShortPacketValues \cup FullPacketValues

Inputs ==
    [tokenizer : TokenValues, data_handler : DataValues,
     timer : [tx_allowed : BOOLEAN], speed : SpeedValues]

NoData == <<>>

----------------------------------------------------------------------------
(* USBSetupDecoder.elaborate *)

(* mutant: the timer is started only by a decode that has to wait *)
timer_start_decode_only ==
    /\ state = "READ_DATA"
    /\ data_handler.new_packet
    /\ data_handler.length = 8
    /\ speed # HIGH

(* m.d.comb += self.timer.start.eq(data_handler.new_packet) *)
timer_start == data_handler.new_packet

(* mutant: the per-cycle default of received is missing *)
Deasserted_never(pk) == pk

(* m.d.usb += [ self.packet.received.eq(0) ] : the default of every cycle *)
Deasserted(pk) == [pk EXCEPT !.received = FALSE]

pid_matches == tokenizer.pid = SETUP_PID

(* mutant: the 16-bit arguments assembled high byte first *)
SetupFields_big_endian(p) ==
    [ received      |-> TRUE,
      recipient     |-> BitSlice(p[0], 0, 5),
      type          |-> BitSlice(p[0], 5, 2),
      is_in_request |-> BitSlice(p[0], 7, 1),
      request       |-> p[1] % 256,
      value         |-> Cat16(p[3], p[2]),
      index         |-> Cat16(p[5], p[4]),
      length        |-> Cat16(p[7], p[6]) ]

(* mutant: the received strobe of a valid setup packet is missing *)
SetupFields_no_strobe(p) ==
    [ received      |-> FALSE,
      recipient     |-> BitSlice(p[0], 0, 5),
      type          |-> BitSlice(p[0], 5, 2),
      is_in_request |-> BitSlice(p[0], 7, 1),
      request       |-> p[1] % 256,
      value         |-> Cat16(p[2], p[3]),
      index         |-> Cat16(p[4], p[5]),
      length        |-> Cat16(p[6], p[7]) ]

(* the synchronous assignments of a valid setup packet: request_type is
   Cat(recipient, type, is_in_request), least significant first *)
SetupFields(p) ==
    [ received      |-> TRUE,
      recipient     |-> BitSlice(p[0], 0, 5),
      type          |-> BitSlice(p[0], 5, 2),
      is_in_request |-> BitSlice(p[0], 7, 1),
      request       |-> p[1] % 256,
      value         |-> Cat16(p[2], p[3]),
      index         |-> Cat16(p[4], p[5]),
      length        |-> Cat16(p[6], p[7]) ]

(* mutant: the high-speed ack is missing, every ack waits for the timer *)
ack_timer_only ==
    /\ state = "INTERPACKET_DELAY"
    /\ timer.tx_allowed

(* mutant: the decode acks at once at every speed *)
ack_any_speed ==
    \/ /\ state = "READ_DATA"
       /\ data_handler.new_packet
       /\ data_handler.length = 8
    \/ /\ state = "INTERPACKET_DELAY"
       /\ timer.tx_allowed

(* mutant: tx_allowed also acks on the decode cycle *)
ack_tx_on_decode ==
    \/ /\ state = "READ_DATA"
       /\ data_handler.new_packet
       /\ data_handler.length = 8
       /\ (speed = HIGH \/ timer.tx_allowed)
    \/ /\ state = "INTERPACKET_DELAY"
       /\ timer.tx_allowed

(* m.d.comb += self.ack.eq(1), in READ_DATA (high speed) and in INTERPACKET_DELAY *)
ack ==
    \/ /\ state = "READ_DATA"
       /\ data_handler.new_packet
       /\ data_handler.length = 8
       /\ speed = HIGH
    \/ /\ state = "INTERPACKET_DELAY"
       /\ timer.tx_allowed

(* mutant: the new_token strobe is not checked *)
IDLE_next_pid_only ==
    IF pid_matches THEN "READ_DATA" ELSE "IDLE"

(* mutant: the PID is not checked *)
IDLE_next_any_token ==
    IF tokenizer.new_token THEN "READ_DATA" ELSE "IDLE"

(* m.next of each FSM state; a later assignment overrides an earlier one *)
IDLE_next ==
    IF pid_matches /\ tokenizer.new_token THEN "READ_DATA" ELSE "IDLE"

(* mutant: the token check of READ_DATA is missing *)
READ_DATA_next_no_abort ==
    IF data_handler.new_packet
    THEN IF data_handler.length = 8
         THEN IF speed = HIGH THEN "IDLE" ELSE "INTERPACKET_DELAY"
         ELSE "IDLE"
    ELSE "READ_DATA"

READ_DATA_next ==
    LET on_token == IF tokenizer.new_token THEN "IDLE" ELSE "READ_DATA"
    IN  IF data_handler.new_packet
        THEN IF data_handler.length = 8
             THEN IF speed = HIGH THEN "IDLE" ELSE "INTERPACKET_DELAY"
             ELSE "IDLE"
        ELSE on_token

(* mutant: the length check is missing, every data packet is parsed *)
READ_DATA_packet_any_length ==
    IF data_handler.new_packet
    THEN SetupFields(data_handler.packet)
    ELSE Deasserted(packet)

(* mutant: request_type and request are written before the length is checked *)
READ_DATA_packet_partial ==
    IF data_handler.new_packet
    THEN IF data_handler.length = 8
         THEN SetupFields(data_handler.packet)
         ELSE [ Deasserted(packet) EXCEPT
                  !.recipient = BitSlice(data_handler.packet[0], 0, 5),
                  !.type = BitSlice(data_handler.packet[0], 5, 2),
                  !.is_in_request = BitSlice(data_handler.packet[0], 7, 1),
                  !.request = data_handler.packet[1] % 256 ]
    ELSE Deasserted(packet)

READ_DATA_packet ==
    IF data_handler.new_packet /\ data_handler.length = 8
    THEN SetupFields(data_handler.packet)
    ELSE Deasserted(packet)

(* mutant: the return to IDLE after the ack is missing *)
INTERPACKET_DELAY_next_stay == "INTERPACKET_DELAY"

(* mutant: a token aborts the wait, as it does in READ_DATA *)
INTERPACKET_DELAY_next_abort ==
    IF timer.tx_allowed \/ tokenizer.new_token THEN "IDLE" ELSE "INTERPACKET_DELAY"

(* mutant: the wait ends as soon as the speed reads HIGH *)
INTERPACKET_DELAY_next_high_exit ==
    IF timer.tx_allowed \/ speed = HIGH THEN "IDLE" ELSE "INTERPACKET_DELAY"

INTERPACKET_DELAY_next ==
    IF timer.tx_allowed THEN "IDLE" ELSE "INTERPACKET_DELAY"

(* the environment drives the inputs of the next cycle *)
Sample(in) ==
    /\ tokenizer' = in.tokenizer
    /\ data_handler' = in.data_handler
    /\ timer' = in.timer
    /\ speed' = in.speed

(* a data pulse with length == 8 sampled in READ_DATA *)
SuccessfulDecode ==
    /\ state = "READ_DATA"
    /\ data_handler.new_packet
    /\ data_handler.length = 8

(* history variables of the decoder, recorded at every clock edge *)
Observe ==
    /\ setup_data' = IF SuccessfulDecode THEN data_handler.packet ELSE setup_data
    /\ awaiting_tx' = \/ SuccessfulDecode /\ speed \in {FULL, LOW}
                      \/ awaiting_tx /\ ~timer.tx_allowed
    /\ setup_seen' = \/ tokenizer.new_token /\ tokenizer.pid = SETUP_PID
                     \/ setup_seen /\ ~tokenizer.new_token
    /\ unacked' = unacked + Pulse(SuccessfulDecode) - Pulse(ack)

Decoder_IDLE(env) ==
    /\ state = "IDLE"
    /\ state' = IDLE_next
    /\ packet' = Deasserted(packet)
    /\ Observe
    /\ \E in \in env : Sample(in)

Decoder_READ_DATA(env) ==
    /\ state = "READ_DATA"
    /\ state' = READ_DATA_next
    /\ packet' = READ_DATA_packet
    /\ Observe
    /\ \E in \in env : Sample(in)

Decoder_INTERPACKET_DELAY(env) ==
    /\ state = "INTERPACKET_DELAY"
    /\ state' = INTERPACKET_DELAY_next
    /\ packet' = Deasserted(packet)
    /\ Observe
    /\ \E in \in env : Sample(in)

(* reset values: FSM in its first state, every Signal 0 *)
DecoderReset ==
    /\ state = "IDLE"
    /\ packet = [ received |-> FALSE, recipient |-> 0, type |-> 0, is_in_request |-> 0,
                  request |-> 0, value |-> 0, index |-> 0, length |-> 0 ]
    /\ setup_data = NoData
    /\ awaiting_tx = FALSE
    /\ setup_seen = FALSE
    /\ unacked = 0

HandlerReset ==
    /\ handler_state = "IDLE"
    /\ owed = FALSE
    /\ armed = FALSE
    /\ n_stall = 0

QuietInterface ==
    [setup_received |-> FALSE, data_requested |-> FALSE, status_requested |-> FALSE]

----------------------------------------------------------------------------
(* Spec: USBSetupDecoder alone, every input free in every cycle *)

Init ==
    /\ DecoderReset
    /\ \E in \in Inputs :
          /\ tokenizer = in.tokenizer
          /\ data_handler = in.data_handler
          /\ timer = in.timer
          /\ speed = in.speed
    /\ HandlerReset
    /\ interface = QuietInterface
    /\ n_received = 0

Next ==
    \/ Decoder_IDLE(Inputs) /\ UNCHANGED handler_vars
    \/ Decoder_READ_DATA(Inputs) /\ UNCHANGED handler_vars
    \/ Decoder_INTERPACKET_DELAY(Inputs) /\ UNCHANGED handler_vars

Spec == Init /\ [][Next]_vars

----------------------------------------------------------------------------
(* SpecDecode: valid SETUP sequences.  A SETUP token is followed by an      *)
(* 8-byte data stage whose bytes range over WidePayloads; only the first    *)
(* data stage of a session carries a payload, later cycles carry tokens and *)
(* timer pulses only.                                                       *)

(* byte 0 exercises every request_type bit field on its own and together *)
WidePayloads ==
    { Bytes(t) : t \in {0, 31, 66, 96, 128, 255} \X {0, 12, 255} \X {0, 205, 255}
                       \X {0, 171, 255} \X {0, 35, 255} \X {0, 1, 255}
                       \X {0, 120, 255} \X {0, 86, 255} }

NoPacket == [new_packet |-> FALSE, length |-> 0, packet |-> ZeroPayload]

(* the decoder will be in READ_DATA in the next cycle and nothing was decoded yet *)
DataStageDue ==
    /\ setup_data = NoData
    /\ \/ state = "IDLE" /\ IDLE_next = "READ_DATA"
       \/ state = "READ_DATA" /\ READ_DATA_next = "READ_DATA"

(* cycles of the data stage: no token, the payload or nothing yet *)
DataStageInputs ==
    [tokenizer : {[new_token |-> FALSE, pid |-> SETUP_PID]},
     data_handler : {NoPacket} \cup
                    [new_packet : {TRUE}, length : {max_packet_size}, packet : WidePayloads],
     timer : [tx_allowed : BOOLEAN], speed : {HIGH, FULL}]

(* every other cycle: a SETUP token or none, no data pulse *)
TokenStageInputs ==
    [tokenizer : [new_token : BOOLEAN, pid : {SETUP_PID}],
     data_handler : {NoPacket},
     timer : [tx_allowed : BOOLEAN], speed : {HIGH, FULL}]

ValidSequenceInputs ==
    IF DataStageDue THEN DataStageInputs ELSE TokenStageInputs

InitDecode ==
    /\ DecoderReset
    /\ \E in \in TokenStageInputs :
          /\ tokenizer = in.tokenizer
          /\ data_handler = in.data_handler
          /\ timer = in.timer
          /\ speed = in.speed
    /\ HandlerReset
    /\ interface = QuietInterface
    /\ n_received = 0

NextDecode ==
    \/ Decoder_IDLE(ValidSequenceInputs) /\ UNCHANGED handler_vars
    \/ Decoder_READ_DATA(ValidSequenceInputs) /\ UNCHANGED handler_vars
    \/ Decoder_INTERPACKET_DELAY(ValidSequenceInputs) /\ UNCHANGED handler_vars

SpecDecode == InitDecode /\ [][NextDecode]_vars

----------------------------------------------------------------------------
(* Properties of USBSetupDecoder *)

Fields ==
    <<packet.is_in_request, packet.type, packet.recipient, packet.request,
      packet.value, packet.index, packet.length>>

(* C1: after a successful decode the SetupPacket fields are the payload bytes
   read by the layout: byte0 = recipient (bits 0-4), type (bits 5-6),
   is_in_request (bit 7); request = byte1; value, index, length little-endian
   from bytes 2-3, 4-5, 6-7.  The reference payload decodes to
   is_in_request 0, type 2, recipient 2, request 12, value 0xABCD,
   index 0x0123, length 0x5678. *)
C1_FieldsFollowLayout ==
    setup_data # NoData =>
        /\ packet.recipient \in 0 .. 31
        /\ packet.type \in 0 .. 3
        /\ packet.is_in_request \in 0 .. 1
        /\ packet.recipient + 32 * packet.type + 128 * packet.is_in_request = setup_data[0]
        /\ packet.request = setup_data[1]
        /\ packet.value = setup_data[2] + 256 * setup_data[3]
        /\ packet.index = setup_data[4] + 256 * setup_data[5]
        /\ packet.length = setup_data[6] + 256 * setup_data[7]
        /\ (setup_data = ReferencePayload => Fields = <<0, 2, 2, 12, 43981, 291, 22136>>)

C1_Witness ==
    /\ setup_data = ReferencePayload
    /\ packet.received
    /\ Fields = <<0, 2, 2, 12, 43981, 291, 22136>>

(* C2: received is true in a cycle exactly when the cycle before it was a
   successful decode, and it is never true in two consecutive cycles: one
   cycle of received per successful decode, none without one. *)
C2_ReceivedOneTickPerDecode ==
    /\ ~packet.received
    /\ [][ /\ packet'.received <=> SuccessfulDecode
           /\ packet.received => ~packet'.received ]_vars

C2_Witness ==
    /\ packet.received
    /\ setup_data # NoData

(* C3: at HIGH speed ack is asserted in the very cycle of the successful
   decode, whatever tx_allowed is, and the FSM is in IDLE in the next cycle. *)
C3_HighSpeedAckSameTick ==
    [][ (SuccessfulDecode /\ speed = HIGH) => (ack /\ state' = "IDLE") ]_vars

C3_Witness ==
    /\ SuccessfulDecode
    /\ speed = HIGH
    /\ ~timer.tx_allowed
    /\ ack

(* C4: a FULL or LOW speed decode does not ack in the decode cycle, and ack
   stays deasserted in every later cycle up to the first cycle after the
   decode in which tx_allowed is sampled. *)
C4_NoAckBeforeTxAllowed ==
    /\ (SuccessfulDecode /\ speed \in {FULL, LOW}) => ~ack
    /\ (awaiting_tx /\ ~timer.tx_allowed) => ~ack

C4_Witness ==
    /\ awaiting_tx
    /\ ~timer.tx_allowed
    /\ state = "INTERPACKET_DELAY"

(* C5 as stated: after a FULL/LOW decode, ack is not asserted in the cycle t in
   which tx_allowed is sampled, and is asserted in cycle t+1. *)
C5_AckOneTickAfterTxAllowed ==
    [][ (awaiting_tx /\ timer.tx_allowed) => (~ack /\ ack') ]_vars

(* C5 amended: after a FULL/LOW decode, ack is asserted in the same cycle t in
   which tx_allowed is first sampled after the decode; in cycle t+1 the FSM is
   in IDLE and ack is deasserted. *)
C5_AckSameTickAsTxAllowed ==
    [][ (awaiting_tx /\ timer.tx_allowed) => (ack /\ state' = "IDLE" /\ ~ack') ]_vars

C5_Witness ==
    /\ awaiting_tx
    /\ timer.tx_allowed
    /\ ack

(* a data pulse whose length is not 8 *)
ShortPacket ==
    /\ data_handler.new_packet
    /\ data_handler.length # 8

(* C6: a data pulse with length # 8, in any FSM state, is never followed by a
   received cycle and adds no ack (ack in that cycle is exactly the pending
   INTERPACKET_DELAY ack that tx_allowed produces with or without the pulse);
   sampled in READ_DATA it puts the FSM in IDLE in the next cycle. *)
C6_ShortPacketDropped ==
    [][ ShortPacket =>
          /\ ~packet'.received
          /\ ack <=> (state = "INTERPACKET_DELAY" /\ timer.tx_allowed)
          /\ state = "READ_DATA" => state' = "IDLE" ]_vars

C6_Witness ==
    /\ ShortPacket
    /\ state = "READ_DATA"
    /\ data_handler.length = 7
    /\ ~tokenizer.new_token

(* C7 as stated: a token pulse sampled in READ_DATA, whatever else is sampled
   in that cycle, leads to IDLE with no received, no ack and no field change. *)
C7_TokenAlwaysAborts ==
    [][ (state = "READ_DATA" /\ tokenizer.new_token) =>
          /\ state' = "IDLE"
          /\ ~packet'.received
          /\ ~ack
          /\ Fields' = Fields ]_vars

(* C7 amended: a token pulse sampled in READ_DATA in a cycle that does not
   also carry a data pulse with length == 8 leads to IDLE with no received,
   no ack and no field change. *)
C7_TokenAbortsUnlessDecode ==
    [][ (state = "READ_DATA" /\ tokenizer.new_token /\ ~SuccessfulDecode) =>
          /\ state' = "IDLE"
          /\ ~packet'.received
          /\ ~ack
          /\ Fields' = Fields ]_vars

C7_Witness ==
    /\ state = "READ_DATA"
    /\ tokenizer.new_token
    /\ ~data_handler.new_packet
    /\ setup_data # NoData

(* C8: the seven SetupPacket fields change only in a successful decode; every
   other step leaves all of them as they were. *)
C8_FieldsChangeOnlyOnDecode ==
    [][ ~SuccessfulDecode => Fields' = Fields ]_vars

C8_Witness ==
    /\ setup_data = OnesPayload
    /\ state = "READ_DATA"
    /\ ShortPacket

----------------------------------------------------------------------------
(* StandardRequestHandler.elaborate *)

(* history counters stop the environment after this many setup.received pulses *)
MaxReceived == 4

(* interface.data_requested | interface.status_requested *)
Requested == interface.data_requested \/ interface.status_requested

(* mutant: only the data phase is answered *)
stall_data_only ==
    /\ handler_state = "UNHANDLED"
    /\ interface.data_requested

(* mutant: the stall is not tied to the UNHANDLED state *)
stall_any_state == Requested

(* m.d.comb += handshake.stall.eq(1), in UNHANDLED *)
stall ==
    /\ handler_state = "UNHANDLED"
    /\ Requested

Handler_IDLE_next ==
    IF interface.setup_received THEN "UNHANDLED" ELSE "IDLE"

Handler_UNHANDLED_next ==
    IF Requested THEN "IDLE" ELSE "UNHANDLED"

(* the values the handler's inputs take in one cycle *)
HandlerInputs ==
    { in \in [setup_received : BOOLEAN, data_requested : BOOLEAN, status_requested : BOOLEAN] :
        in.setup_received => n_received < MaxReceived }

(* the environment drives the next cycle's inputs; the history counters count
   the pulses of every cycle up to and including the new one *)
HandlerSample(in) ==
    /\ interface' = in
    /\ n_received' = n_received + Pulse(in.setup_received)
    /\ n_stall' = n_stall + Pulse(stall')

HandlerObserve ==
    /\ owed' = (interface.setup_received \/ (owed /\ ~stall))
    /\ armed' = \/ handler_state = "IDLE" /\ interface.setup_received
                \/ armed /\ ~stall

Handler_IDLE(env) ==
    /\ handler_state = "IDLE"
    /\ handler_state' = Handler_IDLE_next
    /\ HandlerObserve
    /\ \E in \in env : HandlerSample(in)

Handler_UNHANDLED(env) ==
    /\ handler_state = "UNHANDLED"
    /\ handler_state' = Handler_UNHANDLED_next
    /\ HandlerObserve
    /\ \E in \in env : HandlerSample(in)

----------------------------------------------------------------------------
(* SpecHandler: StandardRequestHandler alone, every input free in every     *)
(* cycle; the decoder is held in reset with quiet inputs.                   *)

InitHandler ==
    /\ DecoderReset
    /\ tokenizer = [new_token |-> FALSE, pid |-> 0]
    /\ data_handler = NoPacket
    /\ timer = [tx_allowed |-> FALSE]
    /\ speed = HIGH
    /\ HandlerReset
    /\ interface \in [setup_received : BOOLEAN, data_requested : BOOLEAN,
                      status_requested : BOOLEAN]
    /\ n_received = Pulse(interface.setup_received)

NextHandler ==
    \/ Handler_IDLE(HandlerInputs) /\ UNCHANGED decoder_vars
    \/ Handler_UNHANDLED(HandlerInputs) /\ UNCHANGED decoder_vars

SpecHandler == InitHandler /\ [][NextHandler]_vars

(* the usb clock never stops *)
SpecHandlerFair == SpecHandler /\ WF_vars(NextHandler)

----------------------------------------------------------------------------
(* Properties of StandardRequestHandler *)

(* C9: setup.received sampled in IDLE puts the handler in UNHANDLED; there,
   every cycle without data_requested and status_requested has no stall and
   keeps UNHANDLED, and the first cycle with one of them asserts stall in that
   same cycle and is followed by IDLE, so each visit to UNHANDLED has exactly
   one stall cycle, its last. *)
C9_StallOnFirstRequest ==
    [][ /\ (handler_state = "IDLE" /\ interface.setup_received) => handler_state' = "UNHANDLED"
        /\ (handler_state = "UNHANDLED" /\ ~Requested) =>
               (~stall /\ handler_state' = "UNHANDLED")
        /\ (handler_state = "UNHANDLED" /\ Requested) =>
               (stall /\ handler_state' = "IDLE" /\ ~stall') ]_vars

C9_Witness ==
    /\ handler_state = "UNHANDLED"
    /\ interface.status_requested
    /\ ~interface.data_requested
    /\ stall
    /\ n_stall = 1

(* C10: whenever setup.received was sampled in an earlier cycle and no stall
   has followed it yet, a cycle with data_requested or status_requested is
   answered by a stall in that cycle or a later one. *)
C10_NoRequestUnanswered ==
    [](owed /\ Requested => <>stall)

----------------------------------------------------------------------------
(* Further properties of USBSetupDecoder *)

(* C11: in INTERPACKET_DELAY token and data pulses have no effect: the next
   state is IDLE exactly when tx_allowed is sampled, and then ack is asserted;
   without tx_allowed the FSM stays in INTERPACKET_DELAY with no ack, however
   long; no received cycle follows and the fields keep their values. *)
C11_CommittedInInterpacketDelay ==
    [][ state = "INTERPACKET_DELAY" =>
          /\ timer.tx_allowed => (ack /\ state' = "IDLE")
          /\ ~timer.tx_allowed => (~ack /\ state' = "INTERPACKET_DELAY")
          /\ ~packet'.received
          /\ Fields' = Fields ]_vars

C11_Witness ==
    /\ state = "INTERPACKET_DELAY"
    /\ tokenizer.new_token
    /\ tokenizer.pid = SETUP_PID
    /\ data_handler.new_packet
    /\ data_handler.length = 8
    /\ ~timer.tx_allowed
    /\ ~packet.received

(* C12: a successful decode happens only when a SETUP token pulse was sampled
   in an earlier cycle with no token pulse in the cycles between; received is
   true only in the cycle after a successful decode, and never after a cycle
   spent in IDLE. *)
C12_TokenThenData ==
    /\ [](SuccessfulDecode => setup_seen)
    /\ [][ /\ packet'.received => (SuccessfulDecode /\ setup_seen)
           /\ state = "IDLE" => ~packet'.received ]_vars

C12_Witness ==
    /\ packet.received
    /\ setup_data = MixedPayload
    /\ state = "INTERPACKET_DELAY"

(* C15 as stated: received is true exactly in the cycle of the successful
   decode, so at HIGH speed received and ack are true in the same cycle. *)
C15_ReceivedOnDecodeTick ==
    /\ packet.received <=> SuccessfulDecode
    /\ (SuccessfulDecode /\ speed = HIGH) => (ack /\ packet.received)

(* C15 amended: received is true exactly in the cycle after the successful
   decode; at HIGH speed ack is true in the decode cycle, where received is
   still false, and received is true one cycle later, where ack is false. *)
C15_ReceivedAfterDecodeTick ==
    [][ /\ packet'.received <=> SuccessfulDecode
        /\ (SuccessfulDecode /\ speed = HIGH) =>
               (ack /\ ~packet.received /\ packet'.received /\ ~ack') ]_vars

C15_Witness ==
    /\ packet.received
    /\ state = "IDLE"
    /\ ~ack
    /\ unacked = 0
    /\ setup_data = ReferencePayload

(* C16: in IDLE only a token pulse with pid SETUP leads to READ_DATA; every
   other input combination (another PID, the SETUP pid without the pulse, data
   pulses, tx_allowed) keeps IDLE; in both cases there is no ack, no received
   cycle follows and the fields keep their values. *)
C16_IdleIgnoresAllButSetupToken ==
    [][ state = "IDLE" =>
          /\ state' = IF tokenizer.new_token /\ tokenizer.pid = 13
                      THEN "READ_DATA" ELSE "IDLE"
          /\ ~ack
          /\ ~packet'.received
          /\ Fields' = Fields ]_vars

C16_Witness ==
    /\ state = "IDLE"
    /\ ~tokenizer.new_token
    /\ tokenizer.pid = SETUP_PID
    /\ data_handler.new_packet
    /\ data_handler.length = 8
    /\ timer.tx_allowed
    /\ setup_data # NoData

(* C17: over the completed cycles the ack pulses never outnumber the
   successful decodes and fall short by at most one, by one exactly while the
   FSM is in INTERPACKET_DELAY; ack is never asserted in IDLE; tx_allowed
   outside INTERPACKET_DELAY produces no ack (the only ack there is the
   HIGH-speed ack of a decode) and is not remembered: in INTERPACKET_DELAY
   there is no ack without tx_allowed in that very cycle. *)
C17_AcksMatchDecodes ==
    /\ unacked \in {0, 1}
    /\ unacked = 1 <=> state = "INTERPACKET_DELAY"
    /\ state = "IDLE" => ~ack
    /\ (state # "INTERPACKET_DELAY" /\ ack) => (SuccessfulDecode /\ speed = HIGH)
    /\ (state = "INTERPACKET_DELAY" /\ ~timer.tx_allowed) => ~ack

C17_Witness ==
    /\ state = "INTERPACKET_DELAY"
    /\ unacked = 1
    /\ ~timer.tx_allowed
    /\ ~packet.received

(* C18: timer.start is pulsed in exactly the cycles in which the deserializer
   pulses new_packet, in every FSM state, for every length and speed. *)
C18_TimerStartFollowsNewPacket ==
    timer_start <=> data_handler.new_packet

C18_Witness ==
    /\ state = "INTERPACKET_DELAY"
    /\ awaiting_tx
    /\ data_handler.new_packet
    /\ data_handler.length # 8
    /\ timer_start

(* what a cycle without a successful decode does, written without speed:
   next state, ack, next received, next fields *)
SpeedFreeStep ==
    CASE state = "IDLE" ->
           << IF tokenizer.new_token /\ tokenizer.pid = 13 THEN "READ_DATA" ELSE "IDLE",
              FALSE, FALSE, Fields >>
      [] state = "READ_DATA" ->
           << IF tokenizer.new_token \/ data_handler.new_packet THEN "IDLE" ELSE "READ_DATA",
              FALSE, FALSE, Fields >>
      [] state = "INTERPACKET_DELAY" ->
           << IF timer.tx_allowed THEN "IDLE" ELSE "INTERPACKET_DELAY",
              timer.tx_allowed, FALSE, Fields >>

(* C19: a successful decode at any speed other than HIGH (1, 2 or 3) goes to
   INTERPACKET_DELAY without ack; in every cycle without a successful decode
   the next state, ack, received and the fields are given by SpeedFreeStep,
   which does not read speed, so runs that differ only in speed there agree;
   in particular speed HIGH in INTERPACKET_DELAY neither acks nor leaves. *)
C19_SpeedOnlyAtDecode ==
    [][ /\ (SuccessfulDecode /\ speed # HIGH) => (~ack /\ state' = "INTERPACKET_DELAY")
        /\ ~SuccessfulDecode =>
               <<state', ack, packet'.received, Fields'>> = SpeedFreeStep ]_vars

C19_Witness ==
    /\ state = "INTERPACKET_DELAY"
    /\ speed = HIGH
    /\ ~timer.tx_allowed
    /\ unacked = 1

----------------------------------------------------------------------------
(* Further properties of StandardRequestHandler *)

(* C20: stall is asserted only in UNHANDLED, and only when setup.received was
   sampled in IDLE in an earlier cycle with no stall since; data_requested or
   status_requested sampled in IDLE, also together with setup.received, gives
   no stall; setup.received sampled in UNHANDLED changes nothing: without a
   request the state stays UNHANDLED with no stall, with one the single stall
   is followed by IDLE as it would be without setup.received. *)
C20_StallOnlyWhenUnhandled ==
    /\ [](stall => (handler_state = "UNHANDLED" /\ armed))
    /\ [](handler_state = "IDLE" => ~stall)
    /\ [][ /\ (handler_state = "UNHANDLED" /\ interface.setup_received /\ ~Requested) =>
                  (~stall /\ handler_state' = "UNHANDLED")
           /\ (handler_state = "UNHANDLED" /\ interface.setup_received /\ Requested) =>
                  (stall /\ handler_state' = "IDLE" /\ ~stall')
           /\ stall => ~armed' ]_vars

C20_Witness ==
    /\ handler_state = "IDLE"
    /\ interface.setup_received
    /\ interface.data_requested
    /\ n_stall = 1
    /\ ~armed

----------------------------------------------------------------------------
(* SpecComposed: USBSetupDecoder and StandardRequestHandler on the same     *)
(* clock, the decoder's packet record being the handler's interface.setup:  *)
(* setup.received is packet.received in every cycle.  The decoder's inputs  *)
(* and the two phase strobes are free in every cycle.  The pulse counters   *)
(* of SpecHandler are not advanced here.                                    *)

ComposedInputs ==
    [tokenizer : TokenValues,
     data_handler : { NoPacket,
                      [new_packet |-> TRUE, length |-> 7, packet |-> ReferencePayload],
                      [new_packet |-> TRUE, length |-> max_packet_size,
                       packet |-> ReferencePayload] },
     timer : [tx_allowed : BOOLEAN], speed : {HIGH, FULL}]

(* data_requested and status_requested of one cycle *)
PhaseStrobes ==
    { [data_requested |-> FALSE, status_requested |-> FALSE],
      [data_requested |-> TRUE, status_requested |-> FALSE],
      [data_requested |-> FALSE, status_requested |-> TRUE] }

(* interface.setup is the decoder's packet: its received is the register's new value *)
Connect(in) ==
    /\ interface' = [ setup_received |-> packet'.received,
                      data_requested |-> in.data_requested,
                      status_requested |-> in.status_requested ]
    /\ UNCHANGED <<n_received, n_stall>>

(* one clock edge of the handler's FSM *)
HandlerTick ==
    /\ handler_state' = IF handler_state = "IDLE"
                        THEN Handler_IDLE_next
                        ELSE Handler_UNHANDLED_next
    /\ HandlerObserve
    /\ \E in \in PhaseStrobes : Connect(in)

InitComposed ==
    /\ DecoderReset
    /\ \E in \in ComposedInputs :
          /\ tokenizer = in.tokenizer
          /\ data_handler = in.data_handler
          /\ timer = in.timer
          /\ speed = in.speed
    /\ HandlerReset
    /\ \E in \in PhaseStrobes :
          interface = [ setup_received |-> packet.received,
                        data_requested |-> in.data_requested,
                        status_requested |-> in.status_requested ]
    /\ n_received = 0

NextComposed ==
    \/ Decoder_IDLE(ComposedInputs) /\ HandlerTick
    \/ Decoder_READ_DATA(ComposedInputs) /\ HandlerTick
    \/ Decoder_INTERPACKET_DELAY(ComposedInputs) /\ HandlerTick

SpecComposed == InitComposed /\ [][NextComposed]_vars

(* the pulse the decoder's FSM waits for is present: a token or a data packet
   in READ_DATA, tx_allowed in INTERPACKET_DELAY *)
DecoderServed ==
    /\ state = "READ_DATA" => (tokenizer.new_token \/ data_handler.new_packet)
    /\ state = "INTERPACKET_DELAY" => timer.tx_allowed

(* the phase strobe the handler's FSM waits for in UNHANDLED is present *)
HandlerServed ==
    handler_state = "UNHANDLED" => Requested

(* the usb clock never stops, and the pulses the two FSMs wait for keep
   arriving: cycles with DecoderServed and cycles with HandlerServed recur *)
SpecComposedFair ==
    /\ SpecComposed
    /\ WF_vars(NextComposed /\ DecoderServed')
    /\ WF_vars(NextComposed /\ HandlerServed')

----------------------------------------------------------------------------
(* Properties of the composition *)

(* C13: there is no cycle in which the decoder's ack and the handler's stall
   are both asserted. *)
C13_AckStallExclusive ==
    ~(ack /\ stall)

(* C14: no state is fatal: when the pulses each FSM waits for keep arriving
   (a token or data packet in READ_DATA, tx_allowed in INTERPACKET_DELAY, a
   phase strobe in UNHANDLED), the decoder is in IDLE infinitely often and so
   is the handler, so from every reachable state an input sequence leads
   back to IDLE. *)
C14_AlwaysBackToIdle ==
    /\ []<>(state = "IDLE")
    /\ []<>(handler_state = "IDLE")

C14_Witness ==
    /\ state = "INTERPACKET_DELAY"
    /\ handler_state = "UNHANDLED"
    /\ ~timer.tx_allowed
    /\ ~Requested

====
